---- MODULE Spec2Model ----
(***************************************************************************)
(* Model of the values-file comment extractor of helm-docs,                *)
(* parseChartValuesFileComments in src/pkg/document/template.go.           *)
(*                                                                         *)
(* A line of the values file is a sequence of one-character strings, so    *)
(* that the three regular expressions are computed on characters.  A key,  *)
(* a description and a default are such sequences too; Go's empty string   *)
(* is the empty sequence.                                                  *)
(***************************************************************************)
EXTENDS Integers, Sequences, FiniteSets, TLC

VARIABLES
    lines,               \* the lines of values.yaml, as bufio.Scanner splits them
    pc,                  \* position in parseChartValuesFileComments: "idle" (not
                         \* called yet), "open", "scan", "done"
    openErr,             \* the error os.Open returned, template.go:423
    pos,                 \* number of lines scanner.Scan() has delivered
    foundValuesComment,  \* template.go:434
    key,                 \* template.go:431
    description,         \* template.go:431
    keyToDescriptions,   \* template.go:432
    scanErr,             \* the error bufio.Scanner keeps when Scan() returns false
    retMap,              \* first return value
    retErr,              \* second return value
    matched,             \* history: the description-start matches, in order
    closed,              \* history: the records written, in order
    other,               \* a second invocation of parseChartValuesFileComments
    chart                \* the calling ParseChartInformation, template.go:485-511

vars == <<lines, pc, openErr, pos, foundValuesComment, key, description,
          keyToDescriptions, scanErr, retMap, retErr, matched, closed,
          other, chart>>

----------------------------------------------------------------------------
(* Bounds and the input alphabet *)

MaxLines == 4

\* "# x -- a"
LineXA == <<"#", " ", "x", " ", "-", "-", " ", "a">>
\* "# x -- b"
LineXB == <<"#", " ", "x", " ", "-", "-", " ", "b">>
\* "# y -- a -- b"
LineYAB == <<"#", " ", "y", " ", "-", "-", " ", "a", " ", "-", "-", " ", "b">>
\* " # @default -- d"
LineDefault == <<" ", "#", " ", "@", "d", "e", "f", "a", "u", "l", "t", " ", "-", "-", " ", "d">>
\* "\t# c"
LineCont == <<"\t", "#", " ", "c">>
\* "x: 1"
LineYaml == <<"x", ":", " ", "1">>
\* "#"
LineBare == <<"#">>

LineSet == {LineXA, LineXB, LineYAB, LineDefault, LineCont, LineYaml, LineBare}

RECURSIVE SeqsUpTo(_, _)
SeqsUpTo(S, n) ==
    IF n = 0 THEN {<<>>}
    ELSE LET shorter == SeqsUpTo(S, n - 1)
         IN  shorter \cup {Append(s, x) : s \in {t \in shorter : Len(t) = n - 1}, x \in S}

Inputs == SeqsUpTo(LineSet, MaxLines)

----------------------------------------------------------------------------
(* The three package-level patterns, template.go:274-276.                   *)
(* FindStringSubmatch returns nil (here <<>>) when the line does not match, *)
(* else the whole match followed by the capture groups.                     *)

\* Go's \s is [\t\n\f\r ]
IsSpace(c) == c \in {" ", "\t", "\n", "\f", "\r"}

\* the length of the run matched by ^\s* (greedy); the pattern goes on with
\* '#', which is not a space, so no shorter run can lead to a match
LeadingSpace(line) ==
    CHOOSE n \in 0..Len(line) :
        /\ \A i \in 1..n : IsSpace(line[i])
        /\ n = Len(line) \/ ~IsSpace(line[n + 1])

\* ^\s*# is followed by the rest of the pattern at this index, 0 if the
\* line does not start with blanks, '#' and one space
CommentStart(line) ==
    LET n == LeadingSpace(line)
    IN  IF Len(line) >= n + 2 /\ line[n + 1] = "#" /\ line[n + 2] = " "
        THEN n + 3
        ELSE 0

Suffix(line, from) == SubSeq(line, from, Len(line))

Delimiter == <<" ", "-", "-", " ">>

\* the indices of s where " -- " starts
DelimiterAt(s) == {i \in 1..Len(s) : i + 3 <= Len(s) /\ SubSeq(s, i, i + 3) = Delimiter}

Max(S) == CHOOSE x \in S : \A y \in S : y <= x
Min(S) == CHOOSE x \in S : \A y \in S : x <= y

\* which " -- " ends the first group of "^\\s*# (.*) -- (.*)$": (.*) is
\* greedy, so the match Go prefers is the one with the longest first group
SplitPoint(D) == Max(D)

\* valuesDescriptionRegex.FindStringSubmatch(line)
valuesDescriptionRegex(line) ==
    LET from == CommentStart(line)
        rest == Suffix(line, from)
        D    == DelimiterAt(rest)
    IN  IF from = 0 \/ D = {} THEN <<>>
        ELSE LET i == SplitPoint(D)
             IN  <<line, SubSeq(rest, 1, i - 1), Suffix(rest, i + 4)>>

\* commentContinuationRegex.FindStringSubmatch(line)
commentContinuationRegex(line) ==
    LET from == CommentStart(line)
    IN  IF from = 0 THEN <<>> ELSE <<line, Suffix(line, from)>>

DefaultTag == <<"@", "d", "e", "f", "a", "u", "l", "t">> \o Delimiter

\* defaultValueRegex.FindStringSubmatch(line)
defaultValueRegex(line) ==
    LET from == CommentStart(line)
        rest == Suffix(line, from)
        n    == Len(DefaultTag)
    IN  IF from = 0 \/ Len(rest) < n \/ SubSeq(rest, 1, n) # DefaultTag THEN <<>>
        ELSE <<line, Suffix(rest, n + 1)>>

----------------------------------------------------------------------------
(* map[string]ChartValueDescription as a function from keys to records *)

EmptyMap == [k \in {} |-> [Description |-> <<>>, Default |-> <<>>]]

\* as Put, had an entry the key already has been kept
Put_KeepsFirst(m, k, r) ==
    [x \in DOMAIN m \cup {k} |-> IF x \in DOMAIN m THEN m[x] ELSE r]

\* keyToDescriptions[k] = r
Put(m, k, r) == [x \in DOMAIN m \cup {k} |-> IF x = k THEN r ELSE m[x]]

\* ChartValueDescription{Description: d, Default: t}
ChartValueDescription(d, t) == [Description |-> d, Default |-> t]

----------------------------------------------------------------------------
(* parseChartValuesFileComments, template.go:421-483 *)

\* no second invocation is running
OtherIdle ==
    [pc |-> "idle", lines |-> <<>>, pos |-> 0,
     found |-> FALSE, key |-> <<>>, description |-> <<>>, map |-> EmptyMap,
     scanErr |-> "nil", retMap |-> EmptyMap, retErr |-> "nil"]

\* the function is not called from ParseChartInformation
ChartIdle ==
    [pc |-> "idle", steps |-> <<>>, err |-> "nil",
     populated |-> FALSE, ChartValuesDescriptions |-> EmptyMap]

Init ==
    /\ other = OtherIdle
    /\ chart = ChartIdle
    /\ lines \in Inputs
    /\ pc = "open"
    /\ openErr = "nil"
    /\ pos = 0
    /\ foundValuesComment = FALSE
    /\ key = <<>>
    /\ description = <<>>
    /\ keyToDescriptions = EmptyMap
    /\ scanErr = "nil"
    /\ retMap = EmptyMap
    /\ retErr = "nil"
    /\ matched = <<>>
    /\ closed = <<>>

\* what os.Open can return: nil, an error for which os.IsNotExist holds,
\* any other error
OpenResults == {"nil", "ErrNotExist", "ErrOpen"}

\* as isErrorInReadingNecessaryFile, had the else branch returned false
isErrorInReadingNecessaryFile_OnlyMissing(loadError) == loadError = "ErrNotExist"

\* 348-360: true for every error, missing file or not
isErrorInReadingNecessaryFile(loadError) ==
    IF loadError # "nil"
    THEN IF loadError = "ErrNotExist" THEN TRUE ELSE TRUE
    ELSE FALSE

\* os.Open fails: the error and an empty map are returned (423-427)
OpenFail ==
    /\ pc = "open"
    /\ \E err \in OpenResults :
          /\ isErrorInReadingNecessaryFile(err)
          /\ openErr' = err
          /\ retErr' = err
    /\ pc' = "done"
    /\ retMap' = EmptyMap
    /\ UNCHANGED <<other, chart, lines, pos, foundValuesComment, key, description,
                   keyToDescriptions, scanErr, matched, closed>>

\* as InitialFound, had the flag started set
InitialFound_Set == TRUE

\* the value foundValuesComment starts with (434)
InitialFound == FALSE

\* os.Open succeeds: the locals are declared and the scanner created (431-434)
OpenOk ==
    /\ pc = "open"
    /\ \E err \in OpenResults :
          /\ ~isErrorInReadingNecessaryFile(err)
          /\ openErr' = err
    /\ pc' = "scan"
    /\ description' = <<>>
    /\ key' = <<>>
    /\ keyToDescriptions' = EmptyMap
    /\ foundValuesComment' = InitialFound
    /\ UNCHANGED <<other, chart, lines, pos, scanErr, retMap, retErr, matched, closed>>

\* scanner.Scan() returns true and scanner.Text() is the next line (436-437)
HasLine == pc = "scan" /\ pos < Len(lines)
currentLine == lines[pos + 1]

\* the line of the pending description-start match: the last one recorded
PendingLine == IF matched = <<>> THEN 0 ELSE matched[Len(matched)].line

\* 440-444: searching, the line is not a description start: continue
SearchNoMatch ==
    /\ HasLine
    /\ ~foundValuesComment
    /\ Len(valuesDescriptionRegex(currentLine)) < 3
    /\ pos' = pos + 1
    /\ UNCHANGED <<other, chart, openErr, lines, pc, foundValuesComment, key, description,
                   keyToDescriptions, scanErr, retMap, retErr, matched, closed>>

\* 440-450: searching, the line is a description start
SearchMatch ==
    /\ HasLine
    /\ ~foundValuesComment
    /\ LET match == valuesDescriptionRegex(currentLine)
       IN  /\ ~(Len(match) < 3)
           /\ foundValuesComment' = TRUE
           /\ key' = match[2]
           /\ description' = match[3]
           /\ matched' = Append(matched, [key |-> match[2], text |-> match[3], line |-> pos + 1])
    /\ pos' = pos + 1
    /\ UNCHANGED <<other, chart, openErr, lines, pc, keyToDescriptions, scanErr, retMap, retErr, closed>>

\* as CloseWithDefault, had the record been put into a new map
CloseWithDefault_Fresh(m, k, d, match) ==
    [x \in {k} |-> ChartValueDescription(d, match[2])]

\* the map after lines 457-460
CloseWithDefault(m, k, d, match) == Put(m, k, ChartValueDescription(d, match[2]))

\* 454-464: a key is pending and the line is a custom default
AccumDefault ==
    /\ HasLine
    /\ foundValuesComment
    /\ LET match == defaultValueRegex(currentLine)
       IN  /\ Len(match) > 1
           /\ keyToDescriptions' = CloseWithDefault(keyToDescriptions, key, description, match)
           /\ closed' = Append(closed, [key |-> key, line |-> PendingLine, by |-> "default",
                                        at |-> pos + 1])
    /\ foundValuesComment' = FALSE
    /\ pos' = pos + 1
    /\ UNCHANGED <<other, chart, openErr, lines, pc, key, description, scanErr, retMap, retErr, matched>>

\* as Continue, without the separating space
Continue_NoSpace(d, match) == d \o match[2]

\* the description after line 469
Continue(d, match) == d \o <<" ">> \o match[2]

\* as AccumContinue, had the continuation pattern been tried before the
\* custom default
AccumContinue_BeforeDefault ==
    /\ HasLine
    /\ foundValuesComment
    /\ LET match == commentContinuationRegex(currentLine)
       IN  /\ Len(match) > 1
           /\ description' = Continue(description, match)
    /\ pos' = pos + 1
    /\ UNCHANGED <<other, chart, openErr, lines, pc, foundValuesComment, key, keyToDescriptions,
                   scanErr, retMap, retErr, matched, closed>>

\* as AccumContinue, had a comment line with a key closed the pending key
\* and started the new one
AccumContinue_Restarts ==
    /\ HasLine
    /\ foundValuesComment
    /\ ~(Len(defaultValueRegex(currentLine)) > 1)
    /\ Len(commentContinuationRegex(currentLine)) > 1
    /\ LET start == valuesDescriptionRegex(currentLine)
       IN  IF Len(start) < 3
           THEN /\ description' = Continue(description, commentContinuationRegex(currentLine))
                /\ UNCHANGED <<key, keyToDescriptions, matched, closed>>
           ELSE /\ keyToDescriptions' = Put(keyToDescriptions, key,
                                            ChartValueDescription(description, <<>>))
                /\ closed' = Append(closed, [key |-> key, line |-> PendingLine,
                                             by |-> "other", at |-> pos + 1])
                /\ key' = start[2]
                /\ description' = start[3]
                /\ matched' = Append(matched, [key |-> start[2], text |-> start[3],
                                               line |-> pos + 1])
    /\ pos' = pos + 1
    /\ UNCHANGED <<other, chart, openErr, lines, pc, foundValuesComment,
                   scanErr, retMap, retErr>>

\* 467-471: a key is pending and the line continues the comment
AccumContinue ==
    /\ HasLine
    /\ foundValuesComment
    /\ ~(Len(defaultValueRegex(currentLine)) > 1)
    /\ LET match == commentContinuationRegex(currentLine)
       IN  /\ Len(match) > 1
           /\ description' = Continue(description, match)
    /\ pos' = pos + 1
    /\ UNCHANGED <<other, chart, openErr, lines, pc, foundValuesComment, key, keyToDescriptions,
                   scanErr, retMap, retErr, matched, closed>>

\* as CloseRecord, keeping the default of a record the key already has
CloseRecord_KeepsDefault(m, k, d) ==
    Put(m, k, ChartValueDescription(d, IF k \in DOMAIN m THEN m[k].Default ELSE <<>>))

\* as CloseRecord, had the record not been added to the map
CloseRecord_Skips(m, k, d) == m

\* the map after lines 475-477
CloseRecord(m, k, d) == Put(m, k, ChartValueDescription(d, <<>>))

\* as AccumClose, without the reset of line 479
AccumClose_NoReset ==
    /\ HasLine
    /\ foundValuesComment
    /\ ~(Len(defaultValueRegex(currentLine)) > 1)
    /\ ~(Len(commentContinuationRegex(currentLine)) > 1)
    /\ keyToDescriptions' = CloseRecord(keyToDescriptions, key, description)
    /\ closed' = Append(closed, [key |-> key, line |-> PendingLine, by |-> "other",
                                 at |-> pos + 1])
    /\ pos' = pos + 1
    /\ UNCHANGED <<other, chart, openErr, lines, pc, foundValuesComment, key, description, scanErr,
                   retMap, retErr, matched>>

\* 475-479: a key is pending and the line is no comment of the two formats
AccumClose ==
    /\ HasLine
    /\ foundValuesComment
    /\ ~(Len(defaultValueRegex(currentLine)) > 1)
    /\ ~(Len(commentContinuationRegex(currentLine)) > 1)
    /\ keyToDescriptions' = CloseRecord(keyToDescriptions, key, description)
    /\ closed' = Append(closed, [key |-> key, line |-> PendingLine, by |-> "other",
                                 at |-> pos + 1])
    /\ foundValuesComment' = FALSE
    /\ pos' = pos + 1
    /\ UNCHANGED <<other, chart, openErr, lines, pc, key, description, scanErr, retMap, retErr, matched>>

\* as ReturnedMap, had a pending key been written when the loop ends
ReturnedMap_Flushes(m, found, k, d) ==
    IF found THEN Put(m, k, ChartValueDescription(d, <<>>)) ELSE m

\* what line 482 returns when the loop has ended
ReturnedMap(m, found, k, d) == m

\* as ScanEOF, had the loop been left before the last line
ScanEOF_Early ==
    /\ pc = "scan"
    /\ pos <= Len(lines)
    /\ pc' = "done"
    /\ retMap' = ReturnedMap(keyToDescriptions, foundValuesComment, key, description)
    /\ retErr' = "nil"
    /\ UNCHANGED <<other, chart, openErr, lines, pos, foundValuesComment, key, description,
                   keyToDescriptions, scanErr, matched, closed>>

\* 436, 482: scanner.Scan() returns false at the end of the file
ScanEOF ==
    /\ pc = "scan"
    /\ pos = Len(lines)
    /\ pc' = "done"
    /\ retMap' = ReturnedMap(keyToDescriptions, foundValuesComment, key, description)
    /\ retErr' = "nil"
    /\ UNCHANGED <<other, chart, openErr, lines, pos, foundValuesComment, key, description,
                   keyToDescriptions, scanErr, matched, closed>>

\* 436, 482: scanner.Scan() returns false because reading failed or the next
\* line is longer than bufio.MaxScanTokenSize; scanner.Err() is never read
ScanFail ==
    /\ pc = "scan"
    /\ pos < Len(lines)
    /\ scanErr' = "ErrRead"
    /\ pc' = "done"
    /\ retMap' = ReturnedMap(keyToDescriptions, foundValuesComment, key, description)
    /\ retErr' = "nil"
    /\ UNCHANGED <<other, chart, openErr, lines, pos, foundValuesComment, key, description,
                   keyToDescriptions, matched, closed>>

\* the body of the loop, 437-479, as a function of the locals and the line
LoopBody(st, line) ==
    IF ~st.found
    THEN LET match == valuesDescriptionRegex(line)
         IN  IF Len(match) < 3 THEN st
             ELSE [st EXCEPT !.found = TRUE, !.key = match[2], !.description = match[3]]
    ELSE IF Len(defaultValueRegex(line)) > 1
    THEN [st EXCEPT !.map = CloseWithDefault(st.map, st.key, st.description,
                                             defaultValueRegex(line)),
                    !.found = FALSE]
    ELSE IF Len(commentContinuationRegex(line)) > 1
    THEN [st EXCEPT !.description = Continue(st.description,
                                             commentContinuationRegex(line))]
    ELSE [st EXCEPT !.map = CloseRecord(st.map, st.key, st.description),
                    !.found = FALSE]

\* the locals after the loop has run over the lines L, 431-480
RECURSIVE LoopOver(_)
LoopOver(L) ==
    IF L = <<>>
    THEN [found |-> InitialFound, key |-> <<>>, description |-> <<>>, map |-> EmptyMap]
    ELSE LoopBody(LoopOver(SubSeq(L, 1, Len(L) - 1)), L[Len(L)])

\* the map parseChartValuesFileComments returns for a file of the lines L
\* that is opened and read to its end, 431-482
Extract(L) ==
    LET st == LoopOver(L)
    IN  ReturnedMap(st.map, st.found, st.key, st.description)

Next ==
    \/ OpenFail
    \/ OpenOk
    \/ SearchNoMatch
    \/ SearchMatch
    \/ AccumDefault
    \/ AccumContinue
    \/ AccumClose
    \/ ScanEOF
    \/ ScanFail

Spec == Init /\ [][Next]_vars

\* One call followed to its return.  The function is sequential code
\* without suspension points: a call that can take a step takes it.
MaxFairLines == 3

FairLineSet == {LineXA, LineDefault, LineCont, LineYaml}

InitFair ==
    /\ other = OtherIdle
    /\ chart = ChartIdle
    /\ lines \in SeqsUpTo(FairLineSet, MaxFairLines)
    /\ pc = "open"
    /\ openErr = "nil"
    /\ pos = 0
    /\ foundValuesComment = FALSE
    /\ key = <<>>
    /\ description = <<>>
    /\ keyToDescriptions = EmptyMap
    /\ scanErr = "nil"
    /\ retMap = EmptyMap
    /\ retErr = "nil"
    /\ matched = <<>>
    /\ closed = <<>>

FairSpec == InitFair /\ [][Next]_vars /\ WF_vars(Next)

TypeOK ==
    /\ lines \in Inputs
    /\ pc \in {"idle", "open", "scan", "done"}
    /\ pos \in 0..Len(lines)
    /\ foundValuesComment \in BOOLEAN
    /\ scanErr \in {"nil", "ErrRead"}
    /\ retErr \in OpenResults
    /\ openErr \in OpenResults

----------------------------------------------------------------------------
(* Two invocations of parseChartValuesFileComments on two files, their     *)
(* steps interleaved.  The second invocation keeps its own file, scanner   *)
(* and locals in `other'; each of its loop iterations is LoopBody.  The    *)
(* three patterns are package-level values that both only read.            *)

MaxConcLines == 2

ConcLineSet == {LineXA, LineYAB, LineDefault, LineYaml}

ConcInputs == SeqsUpTo(ConcLineSet, MaxConcLines)

\* the variables of the first invocation
firstVars == <<lines, pc, openErr, pos, foundValuesComment, key, description,
               keyToDescriptions, scanErr, retMap, retErr, matched, closed>>

InitConc ==
    /\ lines \in ConcInputs
    /\ pc = "open"
    /\ openErr = "nil"
    /\ pos = 0
    /\ foundValuesComment = FALSE
    /\ key = <<>>
    /\ description = <<>>
    /\ keyToDescriptions = EmptyMap
    /\ scanErr = "nil"
    /\ retMap = EmptyMap
    /\ retErr = "nil"
    /\ matched = <<>>
    /\ closed = <<>>
    /\ \E L \in ConcInputs : other = [OtherIdle EXCEPT !.pc = "open", !.lines = L]
    /\ chart = ChartIdle

\* 423-427 in the second invocation
OtherOpenFail ==
    /\ other.pc = "open"
    /\ other' = [other EXCEPT !.pc = "done", !.retMap = EmptyMap, !.retErr = "ErrOpen"]
    /\ UNCHANGED <<firstVars, chart>>

\* as OtherOpenOk, had flag, key and description been package-level
\* variables that a call does not set anew
OtherOpenOk_KeepsLocals ==
    /\ other.pc = "open"
    /\ other' = [other EXCEPT !.pc = "scan", !.found = foundValuesComment,
                              !.key = key, !.description = description,
                              !.map = EmptyMap]
    /\ UNCHANGED <<firstVars, chart>>

\* 431-434 in the second invocation: its own locals
OtherOpenOk ==
    /\ other.pc = "open"
    /\ other' = [other EXCEPT !.pc = "scan", !.found = InitialFound,
                              !.key = <<>>, !.description = <<>>,
                              !.map = EmptyMap]
    /\ UNCHANGED <<firstVars, chart>>

OtherLocals ==
    [found |-> other.found, key |-> other.key,
     description |-> other.description, map |-> other.map]

\* as OtherScanLine, had key been one package-level variable of both
\* invocations
OtherScanLine_SharedKey ==
    /\ other.pc = "scan"
    /\ other.pos < Len(other.lines)
    /\ LET st == LoopBody([OtherLocals EXCEPT !.key = key], other.lines[other.pos + 1])
       IN  /\ other' = [other EXCEPT !.pos = other.pos + 1, !.found = st.found,
                                     !.key = st.key, !.description = st.description,
                                     !.map = st.map]
           /\ key' = st.key
    /\ UNCHANGED <<lines, pc, openErr, pos, foundValuesComment, description,
                   keyToDescriptions, scanErr, retMap, retErr, matched, closed, chart>>

\* 436-480 in the second invocation: one iteration of the loop
OtherScanLine ==
    /\ other.pc = "scan"
    /\ other.pos < Len(other.lines)
    /\ LET st == LoopBody(OtherLocals, other.lines[other.pos + 1])
       IN  other' = [other EXCEPT !.pos = other.pos + 1, !.found = st.found,
                                  !.key = st.key, !.description = st.description,
                                  !.map = st.map]
    /\ UNCHANGED <<firstVars, chart>>

\* 436, 482 in the second invocation: the end of its file
OtherScanEOF ==
    /\ other.pc = "scan"
    /\ other.pos = Len(other.lines)
    /\ other' = [other EXCEPT !.pc = "done", !.retErr = "nil",
                              !.retMap = ReturnedMap(other.map, other.found, other.key,
                                                     other.description)]
    /\ UNCHANGED <<firstVars, chart>>

\* 436, 482 in the second invocation: reading its file fails
OtherScanFail ==
    /\ other.pc = "scan"
    /\ other.pos < Len(other.lines)
    /\ other' = [other EXCEPT !.pc = "done", !.retErr = "nil", !.scanErr = "ErrRead",
                              !.retMap = ReturnedMap(other.map, other.found, other.key,
                                                     other.description)]
    /\ UNCHANGED <<firstVars, chart>>

NextConc ==
    \/ OpenFail
    \/ OpenOk
    \/ SearchNoMatch
    \/ SearchMatch
    \/ AccumDefault
    \/ AccumContinue
    \/ AccumClose
    \/ ScanEOF
    \/ ScanFail
    \/ OtherOpenFail
    \/ OtherOpenOk
    \/ OtherScanLine
    \/ OtherScanEOF
    \/ OtherScanFail

SpecConc == InitConc /\ [][NextConc]_vars

----------------------------------------------------------------------------
(* One call on files of default-override lines, also one whose text has a  *)
(* " -- " of its own.                                                      *)

MaxDefaultLines == 3

\* "# @default -- a -- b"
LineDefaultAB == <<"#", " ", "@", "d", "e", "f", "a", "u", "l", "t", " ", "-", "-", " ",
                   "a", " ", "-", "-", " ", "b">>

DefaultLineSet == {LineDefault, LineDefaultAB, LineXA, LineYaml}

InitDefault ==
    /\ other = OtherIdle
    /\ chart = ChartIdle
    /\ lines \in SeqsUpTo(DefaultLineSet, MaxDefaultLines)
    /\ pc = "open"
    /\ openErr = "nil"
    /\ pos = 0
    /\ foundValuesComment = FALSE
    /\ key = <<>>
    /\ description = <<>>
    /\ keyToDescriptions = EmptyMap
    /\ scanErr = "nil"
    /\ retMap = EmptyMap
    /\ retErr = "nil"
    /\ matched = <<>>
    /\ closed = <<>>

SpecDefault == InitDefault /\ [][Next]_vars

----------------------------------------------------------------------------
(* ParseChartInformation, template.go:485-511: the chart file, the         *)
(* requirements file, the values file, then the comments of the values     *)
(* file, which is a call of parseChartValuesFileComments.  chart.steps     *)
(* holds the steps that have returned, each with the error it returned.    *)

MaxChartLines == 2

InitChart ==
    /\ other = OtherIdle
    /\ chart = [ChartIdle EXCEPT !.pc = "chartFile"]
    /\ lines \in SeqsUpTo(FairLineSet, MaxChartLines)
    /\ pc = "idle"
    /\ openErr = "nil"
    /\ pos = 0
    /\ foundValuesComment = FALSE
    /\ key = <<>>
    /\ description = <<>>
    /\ keyToDescriptions = EmptyMap
    /\ scanErr = "nil"
    /\ retMap = EmptyMap
    /\ retErr = "nil"
    /\ matched = <<>>
    /\ closed = <<>>

\* as StepReturns, without the return of lines 492, 497 and 502
StepReturns_GoesOn(c, step, err, next) ==
    [c EXCEPT !.steps = Append(c.steps, [name |-> step, err |-> err]),
              !.err = err,
              !.pc = next]

\* a step has returned err: lines 491-493, 496-498, 501-503, 506-508
StepReturns(c, step, err, next) ==
    [c EXCEPT !.steps = Append(c.steps, [name |-> step, err |-> err]),
              !.err = err,
              !.pc = IF err # "nil" THEN "done" ELSE next]

\* getYamlFileContents, 326-338: the error of os.Stat when the file does
\* not exist, else the contents (a failing ReadFile panics)
getYamlFileContents == {"nil", "ErrNotExist"}

\* 490-493 with parseChartFile, 362-373
ParseChartFile ==
    /\ chart.pc = "chartFile"
    /\ \E err \in getYamlFileContents :
          chart' = StepReturns(chart, "chartFile",
                               IF isErrorInReadingNecessaryFile(err) THEN err ELSE "nil",
                               "requirements")
    /\ UNCHANGED firstVars
    /\ UNCHANGED other

\* 495-498 with parseChartRequirementsFile, 379-406: for apiVersion v1 a
\* missing requirements.yaml is no error
ParseChartRequirementsFile ==
    /\ chart.pc = "requirements"
    /\ \E apiVersion \in {"v1", "v2"}, missing \in BOOLEAN, err \in getYamlFileContents :
          chart' = StepReturns(chart, "requirements",
                               IF apiVersion = "v1" /\ missing THEN "nil"
                               ELSE IF isErrorInReadingNecessaryFile(err) THEN err
                               ELSE "nil",
                               "values")
    /\ UNCHANGED firstVars
    /\ UNCHANGED other

\* 500-503 with parseChartValuesFile, 408-419
ParseChartValuesFile ==
    /\ chart.pc = "values"
    /\ \E err \in getYamlFileContents :
          chart' = StepReturns(chart, "values",
                               IF isErrorInReadingNecessaryFile(err) THEN err ELSE "nil",
                               "call")
    /\ UNCHANGED firstVars
    /\ UNCHANGED other

\* ioutil.ReadFile or yaml.Unmarshal fails in one of the three steps:
\* getYamlFileContents (334) and yamlLoadAndCheck (344) panic
StepPanics ==
    /\ chart.pc \in {"chartFile", "requirements", "values"}
    /\ chart' = [chart EXCEPT !.pc = "panic"]
    /\ UNCHANGED firstVars
    /\ UNCHANGED other

\* 505: parseChartValuesFileComments is called
CallComments ==
    /\ chart.pc = "call"
    /\ pc = "idle"
    /\ pc' = "open"
    /\ chart' = [chart EXCEPT !.pc = "comments"]
    /\ UNCHANGED <<other, openErr, lines, pos, foundValuesComment, key, description,
                   keyToDescriptions, scanErr, retMap, retErr, matched, closed>>

\* 505-510: the call has returned; the field is assigned before the error
\* is looked at
CommentsReturn ==
    /\ chart.pc = "comments"
    /\ pc = "done"
    /\ chart' = [StepReturns(chart, "comments", retErr, "done")
                    EXCEPT !.populated = TRUE, !.ChartValuesDescriptions = retMap]
    /\ UNCHANGED firstVars
    /\ UNCHANGED other

NextChart ==
    \/ ParseChartFile
    \/ ParseChartRequirementsFile
    \/ ParseChartValuesFile
    \/ StepPanics
    \/ CallComments
    \/ OpenFail
    \/ OpenOk
    \/ SearchNoMatch
    \/ SearchMatch
    \/ AccumDefault
    \/ AccumContinue
    \/ AccumClose
    \/ ScanEOF
    \/ ScanFail
    \/ CommentsReturn

SpecChart == InitChart /\ [][NextChart]_vars

----------------------------------------------------------------------------
(* The line shapes of the specification, stated on the characters of a     *)
(* line and not through the patterns.                                      *)

\* the indices at which the line goes on after leading blanks and prefix
AfterPrefix(line, prefix) ==
    {n + Len(prefix) + 1 : n \in {m \in 0..Len(line) :
        /\ \A i \in 1..m : IsSpace(line[i])
        /\ m + Len(prefix) <= Len(line)
        /\ SubSeq(line, m + 1, m + Len(prefix)) = prefix}}

\* <whitespace># <text>
CommentShape(line) == AfterPrefix(line, <<"#", " ">>) # {}
CommentText(line) == Suffix(line, Min(AfterPrefix(line, <<"#", " ">>)))

\* <whitespace># @default -- <text>
DefaultShape(line) == AfterPrefix(line, <<"#", " ">> \o DefaultTag) # {}
DefaultText(line) == Suffix(line, Min(AfterPrefix(line, <<"#", " ">> \o DefaultTag)))

\* <whitespace># <key> -- <text>
StartShape(line) == CommentShape(line) /\ DelimiterAt(CommentText(line)) # {}

\* a comment line that continues a description: not a default override
ContinuationShape(line) == CommentShape(line) /\ ~DefaultShape(line)

\* the scanner consumes the next line in this step
Consumes == HasLine /\ pos' = pos + 1

\* the last record written for key k, if any
LastClosed(k) ==
    LET I == {i \in 1..Len(closed) : closed[i].key = k}
    IN  closed[Max(I)]

ClosedKeys == {closed[i].key : i \in 1..Len(closed)}

----------------------------------------------------------------------------
(* C1: an error of the line source is returned to the caller; a scan that  *)
(* stopped on a read error does not return its map with a nil error.       *)
C1_ReadErrorReturned ==
    (pc = "done" /\ scanErr # "nil") => (retErr = scanErr)

(* C2: the key captured by a description-start match is the text between   *)
(* "# " and the FIRST " -- " of the line, the description the whole        *)
(* remainder after that first delimiter; the key contains no " -- ".       *)
C2_KeyEndsAtFirstDelimiter ==
    \A i \in 1..Len(matched) :
        LET rest  == CommentText(lines[matched[i].line])
            first == Min(DelimiterAt(rest))
        IN  /\ matched[i].key = SubSeq(rest, 1, first - 1)
            /\ matched[i].text = Suffix(rest, first + 4)
            /\ DelimiterAt(matched[i].key) = {}

(* C3: while a key is pending, a default-override line closes it: the map  *)
(* gets key -> {description so far, default = text}, the scanner searches  *)
(* again and the description is not extended by the annotation.            *)
C3_DefaultClosesKey ==
    [][(Consumes /\ foundValuesComment /\ DefaultShape(currentLine)) =>
          /\ keyToDescriptions' =
                 Put(keyToDescriptions, key,
                     [Description |-> description, Default |-> DefaultText(currentLine)])
          /\ ~foundValuesComment'
          /\ description' = description]_vars

C3_Witness ==
    /\ pc = "done"
    /\ \E i \in 1..Len(closed) :
          /\ closed[i].by = "default"
          /\ closed[i].at > closed[i].line + 1
          /\ retMap[closed[i].key].Default = <<"d">>

(* C4: a description start followed by n >= 0 continuation lines: the      *)
(* description is the start's text followed by each continuation's text    *)
(* preceded by one space, in line order, the scanner is still accumulating *)
(* after each continuation line, and the record written when the key is    *)
(* closed carries that description.                                        *)
RECURSIVE JoinedDescription(_, _)
JoinedDescription(first, last) ==
    IF last <= first THEN valuesDescriptionRegex(lines[first])[3]
    ELSE JoinedDescription(first, last - 1) \o <<" ">> \o CommentText(lines[last])

ContinuationRun(first, last) ==
    \A i \in (first + 1)..last : ContinuationShape(lines[i])

C4_DescriptionJoined ==
    /\ \A i \in 1..Len(matched) :
          LET first == matched[i].line
          IN  (i = Len(matched) /\ ContinuationRun(first, pos)) =>
                  /\ foundValuesComment
                  /\ key = matched[i].key
                  /\ description = JoinedDescription(first, pos)
    /\ \A k \in ClosedKeys :
          LET c == LastClosed(k)
          IN  /\ ContinuationRun(c.line, c.at - 1)
              /\ keyToDescriptions[k].Description = JoinedDescription(c.line, c.at - 1)

C4_Witness ==
    /\ pc = "done"
    /\ \E k \in ClosedKeys :
          /\ LastClosed(k).at = LastClosed(k).line + 3
          /\ retMap[k].Description = <<"a", " ", "c", " ", "c">>

(* C5: while a key is pending, a line that is no comment (neither a        *)
(* default override nor a continuation) writes key -> {description, no     *)
(* default}, the scanner searches again and the line starts no new key;    *)
(* and a record gets a default only from a default-override line closing   *)
(* its key.                                                                *)
C5_OtherLineFinalizes ==
    [][/\ (Consumes /\ foundValuesComment /\ ~CommentShape(currentLine)) =>
              /\ keyToDescriptions' =
                     Put(keyToDescriptions, key,
                         [Description |-> description, Default |-> <<>>])
              /\ ~foundValuesComment'
              /\ matched' = matched
              /\ key' = key /\ description' = description
       /\ \A k \in DOMAIN keyToDescriptions' :
              (/\ keyToDescriptions'[k].Default # <<>>
               /\ (k \notin DOMAIN keyToDescriptions
                      \/ keyToDescriptions[k] # keyToDescriptions'[k])) =>
                  (Consumes /\ foundValuesComment /\ DefaultShape(currentLine) /\ k = key)
      ]_vars

C5_Witness ==
    /\ pc = "done"
    /\ \E i \in 1..Len(closed) :
          /\ closed[i].by = "other"
          /\ lines[closed[i].at] = LineBare
          /\ retMap[closed[i].key].Default = <<>>
    /\ \E i \in 1..Len(closed) :
          /\ closed[i].by = "other"
          /\ lines[closed[i].at] = LineYaml

----------------------------------------------------------------------------
(* The record of one documented occurrence of a key, read off the lines    *)
(* the scanner has delivered: `first' is the line of the description       *)
(* start.                                                                  *)

\* the delivered lines after `first' that end its run of continuation lines
ClosingLines(first) == {e \in (first + 1)..pos : ~ContinuationShape(lines[e])}
IsClosed(first) == ClosingLines(first) # {}
StopLine(first) == IF IsClosed(first) THEN Min(ClosingLines(first)) ELSE pos + 1

OccurrenceRecord(first) ==
    LET e == StopLine(first)
    IN  [Description |-> JoinedDescription(first, e - 1),
         Default     |-> IF e <= pos /\ DefaultShape(lines[e])
                         THEN DefaultText(lines[e]) ELSE <<>>]

MatchedKeys == {matched[i].key : i \in 1..Len(matched)}
MatchesOf(k) == {i \in 1..Len(matched) : matched[i].key = k}
ClosesOf(k) == {i \in 1..Len(closed) : closed[i].key = k}

\* the key is documented more than once, with different description text
DocumentedTwice(k) ==
    \E i, j \in MatchesOf(k) : matched[i].text # matched[j].text

\* the file was opened and read to its end
ReadToEnd == pc = "done" /\ retErr = "nil" /\ scanErr = "nil"

\* the lines that match none of the three patterns
OtherLines == {l \in LineSet : ~CommentShape(l)}

(* C6, as claimed: a key documented more than once with different text has *)
(* in the returned map the record of its last occurrence.                  *)
C6_LastWriteWins ==
    ReadToEnd =>
        \A k \in MatchedKeys :
            DocumentedTwice(k) =>
                /\ k \in DOMAIN retMap
                /\ retMap[k] = OccurrenceRecord(matched[Max(MatchesOf(k))].line)

(* C6, amended: a key documented more than once with different text has in *)
(* the returned map the record of its last occurrence that was closed by a *)
(* following line; an occurrence still pending when the scan ends writes   *)
(* nothing.                                                                *)
C6_LastClosedWins ==
    (pc = "done" /\ retErr = "nil") =>
        \A k \in MatchedKeys :
            DocumentedTwice(k) =>
                LET C == {i \in MatchesOf(k) : IsClosed(matched[i].line)}
                IN  IF C = {} THEN k \notin DOMAIN retMap
                    ELSE /\ k \in DOMAIN retMap
                         /\ retMap[k] = OccurrenceRecord(matched[Max(C)].line)

C6_Witness ==
    /\ ReadToEnd
    /\ \E k \in MatchedKeys :
          /\ DocumentedTwice(k)
          /\ \A i \in MatchesOf(k) : IsClosed(matched[i].line)
          /\ matched[Min(MatchesOf(k))].text = <<"a">>
          /\ retMap[k].Description = <<"b">>

(* C7, as claimed: when the input ends while a key is pending, the         *)
(* returned map has no record for that key.                                *)
C7_PendingKeyAbsent ==
    (ReadToEnd /\ foundValuesComment) => key \notin DOMAIN retMap

(* C7, amended: when the input ends while a key is pending, the pending    *)
(* occurrence writes no record: the returned map is the map of the lines   *)
(* before the pending description start, and it has a record for the key   *)
(* only from an earlier, closed occurrence of the same key.                *)
C7_PendingOccurrenceDropped ==
    (ReadToEnd /\ foundValuesComment) =>
        LET E == {i \in MatchesOf(key) : i < Len(matched)}
        IN  /\ \A i \in 1..Len(closed) : closed[i].line # PendingLine
            /\ retMap = Extract(SubSeq(lines, 1, PendingLine - 1))
            /\ IF E = {} THEN key \notin DOMAIN retMap
               ELSE /\ key \in DOMAIN retMap
                    /\ retMap[key] = OccurrenceRecord(matched[Max(E)].line)

C7_Witness ==
    /\ ReadToEnd
    /\ foundValuesComment
    /\ Len(lines) >= 3
    /\ lines[Len(lines)] = LineCont
    /\ PendingLine = Len(lines) - 1
    /\ retMap # EmptyMap
    /\ key \notin DOMAIN retMap

(* C8, as claimed: the map returned for the lines L equals the map         *)
(* returned for L followed by one line that matches none of the patterns.  *)
C8_EndOfInputAsOtherLine ==
    ReadToEnd => \A j \in OtherLines : Extract(Append(lines, j)) = retMap

(* C8, amended: the map returned for L equals the map returned for L       *)
(* followed by a line that matches no pattern when the scanner is          *)
(* searching at the end of L; when a key is pending at the end of L, the   *)
(* longer input returns the map of L with the pending key set to           *)
(* {pending description, no default}.                                      *)
C8_EndOfInputWhileSearching ==
    ReadToEnd =>
        /\ retMap = Extract(lines)
        /\ \A j \in OtherLines :
              Extract(Append(lines, j)) =
                  IF foundValuesComment
                  THEN [k \in DOMAIN retMap \cup {key} |->
                           IF k = key
                           THEN [Description |-> description, Default |-> <<>>]
                           ELSE retMap[k]]
                  ELSE retMap

C8_Witness ==
    /\ ReadToEnd
    /\ foundValuesComment
    /\ retMap # EmptyMap
    /\ Extract(Append(lines, LineYaml)) # retMap
    /\ key \notin DOMAIN retMap

(* C9, as claimed: every key of the returned map was matched by the        *)
(* description-start pattern exactly once and written exactly once.        *)
C9_MatchedAndWrittenOnce ==
    pc = "done" =>
        \A k \in DOMAIN retMap :
            /\ Cardinality(MatchesOf(k)) = 1
            /\ Cardinality(ClosesOf(k)) = 1

(* C9, amended: every key of the returned map was matched by the           *)
(* description-start pattern at least once, and every write of a record    *)
(* closes one such match of its key, no match being closed twice: a key    *)
(* matched n times is written at most n times.                             *)
C9_WrittenOncePerMatch ==
    /\ pc = "done" =>
          \A k \in DOMAIN retMap : MatchesOf(k) # {} /\ ClosesOf(k) # {}
    /\ \A i \in 1..Len(matched) :
          /\ StartShape(lines[matched[i].line])
          /\ matched[i].key = valuesDescriptionRegex(lines[matched[i].line])[2]
    /\ \A i \in 1..Len(closed) :
          /\ \E j \in MatchesOf(closed[i].key) : matched[j].line = closed[i].line
          /\ \A j \in 1..Len(closed) : closed[j].line = closed[i].line => j = i
    /\ \A k \in MatchedKeys : Cardinality(ClosesOf(k)) <= Cardinality(MatchesOf(k))

C9_Witness ==
    /\ pc = "done"
    /\ \E k \in DOMAIN retMap :
          /\ Cardinality(MatchesOf(k)) = 2
          /\ Cardinality(ClosesOf(k)) = 2

(* C10: when no line of the input matches the description-start pattern,   *)
(* the scanner never leaves the searching mode, writes no record, and the  *)
(* returned map is empty.                                                  *)
C10_NoStartNoRecord ==
    (\A i \in 1..Len(lines) : ~StartShape(lines[i])) =>
        /\ ~foundValuesComment
        /\ keyToDescriptions = EmptyMap
        /\ closed = <<>>
        /\ pc = "done" => retMap = EmptyMap

C10_Witness ==
    /\ ReadToEnd
    /\ \A i \in 1..Len(lines) : ~StartShape(lines[i])
    /\ \E i \in 1..Len(lines) : lines[i] = LineCont
    /\ \E i \in 1..Len(lines) : lines[i] = LineYaml
    /\ \E i \in 1..Len(lines) : lines[i] = LineBare
    /\ retMap = EmptyMap

----------------------------------------------------------------------------
(* C11: two scans of different files whose steps are interleaved each      *)
(* return the map the scan returns when it runs alone on the lines it was  *)
(* given, and neither changes a local of the other.                        *)
C11_InterleavedScansAlone ==
    /\ (pc = "done" /\ retErr = "nil") => retMap = Extract(SubSeq(lines, 1, pos))
    /\ (other.pc = "done" /\ other.retErr = "nil") =>
           other.retMap = Extract(SubSeq(other.lines, 1, other.pos))
    /\ pc = "scan" =>
           LET st == LoopOver(SubSeq(lines, 1, pos))
           IN  /\ foundValuesComment = st.found
               /\ key = st.key
               /\ description = st.description
               /\ keyToDescriptions = st.map

C11_Witness ==
    /\ pc = "done" /\ scanErr = "nil" /\ retErr = "nil"
    /\ other.pc = "done" /\ other.scanErr = "nil" /\ other.retErr = "nil"
    /\ Len(lines) = 2 /\ Len(other.lines) = 2
    /\ retMap # EmptyMap /\ other.retMap # EmptyMap
    /\ DOMAIN retMap # DOMAIN other.retMap

(* C12: two runs of the extractor that are given the same sequence of      *)
(* lines return the same map, whether the runs follow one another or       *)
(* overlap.                                                                *)
C12_SameLinesSameMap ==
    (/\ pc = "done" /\ retErr = "nil"
     /\ other.pc = "done" /\ other.retErr = "nil"
     /\ SubSeq(lines, 1, pos) = SubSeq(other.lines, 1, other.pos)) =>
        retMap = other.retMap

C12_Witness ==
    /\ pc = "done" /\ scanErr = "nil" /\ retErr = "nil"
    /\ other.pc = "done" /\ other.scanErr = "nil" /\ other.retErr = "nil"
    /\ lines = other.lines
    /\ Len(lines) = 2
    /\ retMap # EmptyMap
    /\ retMap = other.retMap

(* C13: the scan is one forward pass that terminates: the lines are        *)
(* delivered one by one in order, each to exactly one branch of the loop   *)
(* body, none twice and none skipped; when the file has been read to its   *)
(* end all its lines have been consumed and the map is returned; and every *)
(* call returns.                                                           *)
BranchesEnabled ==
    {b \in 1..5 : \/ b = 1 /\ ENABLED SearchNoMatch
                  \/ b = 2 /\ ENABLED SearchMatch
                  \/ b = 3 /\ ENABLED AccumDefault
                  \/ b = 4 /\ ENABLED AccumContinue
                  \/ b = 5 /\ ENABLED AccumClose}

C13_SinglePassTerminates ==
    /\ [][\/ pos' = pos /\ pc' # "scan"
          \/ pos' = pos /\ pc = "open"
          \/ pos' = pos + 1 /\ pc = "scan" /\ pc' = "scan" /\ pos < Len(lines)]_vars
    /\ [](HasLine => Cardinality(BranchesEnabled) = 1)
    /\ [](ReadToEnd => (pos = Len(lines) /\ retMap = keyToDescriptions))
    /\ <>(pc = "done")

C13_Witness ==
    /\ ReadToEnd
    /\ Len(lines) >= 3
    /\ pos = Len(lines)
    /\ Len(matched) + Len(closed) >= 3

(* C14: while a key is pending, a comment line of the description-start    *)
(* shape that is no default override starts no new key and closes none:    *)
(* its text, key and delimiter included, is appended to the pending        *)
(* description after one space, and the line is no match of its own.       *)
C14_StartLineWhileAccumulating ==
    [][(Consumes /\ foundValuesComment /\ StartShape(currentLine)
          /\ ~DefaultShape(currentLine)) =>
          /\ foundValuesComment'
          /\ key' = key
          /\ description' = description \o <<" ">> \o CommentText(currentLine)
          /\ keyToDescriptions' = keyToDescriptions
          /\ matched' = matched
          /\ closed' = closed]_vars

C14_Witness ==
    /\ ReadToEnd
    /\ Len(lines) >= 3
    /\ lines[1] = LineXA
    /\ lines[2] = LineYAB
    /\ Len(matched) = 1
    /\ DOMAIN retMap = {<<"x">>}
    /\ retMap[<<"x">>].Description =
           <<"a", " ", "y", " ", "-", "-", " ", "a", " ", "-", "-", " ", "b">>

(* C15: a line that is no description start leaves flag, key, description  *)
(* and map as they are while the scanner searches; a description start     *)
(* and a continuation line leave the map as it is; the map changes only in *)
(* a step that ends the accumulation, and then no entry but that of the    *)
(* pending key changes.                                                    *)
C15_Frame ==
    [][/\ (Consumes /\ ~foundValuesComment /\ ~StartShape(currentLine)) =>
              UNCHANGED <<foundValuesComment, key, description, keyToDescriptions>>
       /\ (Consumes /\ ~foundValuesComment /\ StartShape(currentLine)) =>
              keyToDescriptions' = keyToDescriptions
       /\ (Consumes /\ foundValuesComment /\ ContinuationShape(currentLine)) =>
              keyToDescriptions' = keyToDescriptions
       /\ keyToDescriptions' # keyToDescriptions =>
              /\ foundValuesComment /\ ~foundValuesComment'
              /\ DOMAIN keyToDescriptions' = DOMAIN keyToDescriptions \cup {key}
              /\ \A k \in DOMAIN keyToDescriptions :
                     k # key => keyToDescriptions'[k] = keyToDescriptions[k]
      ]_vars

C15_Witness ==
    /\ ReadToEnd
    /\ Cardinality(DOMAIN retMap) >= 2
    /\ \E i \in 1..Len(closed) : closed[i].by = "default" /\ i > 1

(* C16: when the values file cannot be opened the function returns the     *)
(* error of os.Open with an empty map; no line is scanned and no record    *)
(* written.                                                                *)
C16_OpenErrorReturned ==
    openErr # "nil" =>
        /\ pc = "done"
        /\ retErr = openErr
        /\ retMap = EmptyMap
        /\ pos = 0
        /\ keyToDescriptions = EmptyMap
        /\ matched = <<>>
        /\ closed = <<>>

C16_Witness ==
    /\ pc = "done"
    /\ openErr = "ErrOpen"
    /\ retErr = "ErrOpen"
    /\ Len(lines) >= 2
    /\ StartShape(lines[1])
    /\ retMap = EmptyMap

(* C17: a line of the default-override shape read while the scanner        *)
(* searches is a description start with key "@default" and the text after  *)
(* "# @default -- " as description; the scanner accumulates, and when the  *)
(* key is closed the map has a record under "@default".                    *)
DefaultKey == <<"@", "d", "e", "f", "a", "u", "l", "t">>

C17_DefaultLineStartsDefaultKey ==
    [][/\ (Consumes /\ ~foundValuesComment /\ DefaultShape(currentLine)) =>
              /\ foundValuesComment'
              /\ key' = DefaultKey
              /\ description' = DefaultText(currentLine)
       /\ (Consumes /\ foundValuesComment /\ ~foundValuesComment'
             /\ PendingLine > 0 /\ DefaultShape(lines[PendingLine])) =>
              DefaultKey \in DOMAIN keyToDescriptions'
      ]_vars

(* C18: ParseChartInformation runs chart file, requirements file, values   *)
(* file and values-file comments in this order and stops at the first step *)
(* that returns an error: that error is returned, no later step has run,   *)
(* and ChartValuesDescriptions is assigned only after the three earlier    *)
(* steps have succeeded.                                                   *)
StepOrder == <<"chartFile", "requirements", "values", "comments">>

C18_StepsInOrderUntilError ==
    /\ Len(chart.steps) <= 4
    /\ \A i \in 1..Len(chart.steps) :
          /\ chart.steps[i].name = StepOrder[i]
          /\ i < Len(chart.steps) => chart.steps[i].err = "nil"
    /\ pc # "idle" => (Len(chart.steps) >= 3 /\ chart.steps[3].err = "nil")
    /\ chart.populated => (Len(chart.steps) = 4 /\ chart.ChartValuesDescriptions = retMap)
    /\ chart.pc = "done" =>
          /\ chart.steps # <<>>
          /\ chart.err = chart.steps[Len(chart.steps)].err
          /\ chart.err = "nil" => Len(chart.steps) = 4

C18_Witness ==
    /\ chart.pc = "done"
    /\ chart.err = "ErrNotExist"
    /\ Len(chart.steps) = 3
    /\ pc = "idle"
    /\ ~chart.populated
    /\ Len(lines) >= 2 /\ StartShape(lines[1])

====
